---- MODULE Spec2Model ----
(***************************************************************************)
(* Model of lib/classes/many_to_many.py: the Author, Magazine and Article  *)
(* classes, the class-level lists Article.all_articles and                 *)
(* Magazine.all_magazines, and the derived queries that scan them.         *)
(*                                                                         *)
(* A Python value is a record [type, val]: type is the class the value is  *)
(* an instance of, val identifies it (the characters of a str, the number  *)
(* of an int, the creation index of an Author, Magazine or Article).       *)
(* Instances of the three classes define no __eq__/__hash__, so == on them *)
(* is identity: equality of the records.                                   *)
(***************************************************************************)
EXTENDS Integers, Sequences, FiniteSets, TLC

\* ------------------------------------------------------------ bounds
\* Authors, magazines and articles created in one run, together.
MaxObjects == 5

\* ------------------------------------------------- program constants
MinTitle == 5
MaxTitle == 50
MinName == 2
MaxName == 16
Threshold == 2

\* ------------------------------------------------------ Python values
Str(chars) == [type |-> "str", val |-> chars]
Number(n) == [type |-> "int", val |-> n]
Ref(cls, id) == [type |-> cls, val |-> id]
List(items) == [type |-> "list", val |-> items]
None == [type |-> "NoneType", val |-> 0]
ValueError(message) == [type |-> "ValueError", val |-> message]
AttributeError == [type |-> "AttributeError", val |-> 0]

Chars(n, c) == [i \in 1..n |-> c]

isinstance(value, cls) == value.type = cls

len(value) == Len(value.val)

Range(s) == {s[i] : i \in DOMAIN s}

\* list(a_set): the elements of a set, each once, in an order the language
\* does not specify (one fixed order per set).
list(S) ==
    List(CHOOSE s \in [1..Cardinality(S) -> S] : Range(s) = S)

\* ------------------------------------------------------------- state
VARIABLES
    name,           \* Author.name of every Author created, by creation index
    _name,          \* Magazine._name of every Magazine, by creation index
    _category,      \* Magazine._category
    all_magazines,  \* Magazine.all_magazines: Magazine instances, in order
    author,         \* Article.author of every Article, by creation index
    magazine,       \* Article.magazine
    title,          \* Article.title
    all_articles,   \* Article.all_articles: Article instances, in order
    result          \* what the last call returned, or the exception it raised

vars == <<name, _name, _category, all_magazines,
          author, magazine, title, all_articles, result>>

authorState == <<name>>
magazineState == <<_name, _category, all_magazines>>
articleState == <<author, magazine, title, all_articles>>

Authors == {Ref("Author", i) : i \in DOMAIN name}
Magazines == {Ref("Magazine", i) : i \in DOMAIN _name}
Articles == {Ref("Article", i) : i \in DOMAIN author}

Objects == Cardinality(DOMAIN name) + Cardinality(DOMAIN _name)
             + Cardinality(DOMAIN author)

\* The class attributes as the class bodies set them, and no instance yet
\* (the state the module's own test and the test suite reset the lists to).
Init ==
    /\ name = <<>>
    /\ _name = <<>>
    /\ _category = <<>>
    /\ all_magazines = <<>>
    /\ author = <<>>
    /\ magazine = <<>>
    /\ title = <<>>
    /\ all_articles = <<>>
    /\ result = None

\* raise ValueError(message), before the call has written anything.
Raise(message) ==
    /\ result' = ValueError(message)
    /\ UNCHANGED <<authorState, magazineState, articleState>>

\* ------------------------------------------------------------ Author
\* Author.__init__(self, name)
AuthorInit(value) ==
    IF ~isinstance(value, "str") \/ len(value) = 0
    THEN Raise("Name must be a non-empty string.")
    ELSE /\ name' = Append(name, value)
         /\ result' = Ref("Author", Len(name) + 1)
         /\ UNCHANGED <<magazineState, articleState>>

\* ---------------------------------------------------------- Magazine
\* Faulty variant of NameOk: the lower bound of the length is not tested.
NameOk_NoLowerBound(value) ==
    ~(~isinstance(value, "str") \/ ~(len(value) <= MaxName))

\* The test of the name setter: the value is stored when this holds.
NameOk(value) ==
    ~(~isinstance(value, "str") \/ ~(MinName <= len(value) /\ len(value) <= MaxName))

\* The test of the category setter.
CategoryOk(value) ==
    ~(~isinstance(value, "str") \/ len(value) = 0)

\* Magazine.__init__(self, name, category): the two setters, then the
\* append. When a setter raises, the instance under construction is never
\* bound to a name by the caller and is not in all_magazines.
MagazineInit(n, c) ==
    IF ~NameOk(n) THEN Raise("Name must be a string between 2 and 16 characters.")
    ELSE IF ~CategoryOk(c) THEN Raise("Category must be a non-empty string.")
    ELSE /\ _name' = Append(_name, n)
         /\ _category' = Append(_category, c)
         /\ all_magazines' = Append(all_magazines, Ref("Magazine", Len(_name) + 1))
         /\ result' = Ref("Magazine", Len(_name) + 1)
         /\ UNCHANGED <<authorState, articleState>>

\* magazine.name = value, on an existing Magazine
SetName(self, value) ==
    /\ self \in Magazines
    /\ IF ~NameOk(value)
       THEN Raise("Name must be a string between 2 and 16 characters.")
       ELSE /\ _name' = [_name EXCEPT ![self.val] = value]
            /\ result' = None
            /\ UNCHANGED <<_category, all_magazines, authorState, articleState>>

\* magazine.category = value, on an existing Magazine
SetCategory(self, value) ==
    /\ self \in Magazines
    /\ IF ~CategoryOk(value) THEN Raise("Category must be a non-empty string.")
       ELSE /\ _category' = [_category EXCEPT ![self.val] = value]
            /\ result' = None
            /\ UNCHANGED <<_name, all_magazines, authorState, articleState>>

\* ----------------------------------------------------------- Article
\* Faulty variant of TitleOk: the two ends of the range are excluded.
TitleOk_Exclusive(t) ==
    ~(~isinstance(t, "str") \/ ~(MinTitle < len(t) /\ len(t) < MaxTitle))

\* The test of the title in Article.__init__.
TitleOk(t) ==
    ~(~isinstance(t, "str") \/ ~(MinTitle <= len(t) /\ len(t) <= MaxTitle))

\* Faulty variant of Register: the article is inserted at the front.
Register_AtFront(registry, self) == <<self>> \o registry

\* Article.all_articles.append(self)
Register(registry, self) == Append(registry, self)

\* Article.__init__(self, author, magazine, title)
ArticleInit(a, m, t) ==
    IF ~isinstance(a, "Author")
    THEN Raise("Author must be an instance of the Author class.")
    ELSE IF ~isinstance(m, "Magazine")
    THEN Raise("Magazine must be an instance of the Magazine class.")
    ELSE IF ~TitleOk(t)
    THEN Raise("Title must be a string between 5 and 50 characters.")
    ELSE /\ author' = Append(author, a)
         /\ magazine' = Append(magazine, m)
         /\ title' = Append(title, t)
         /\ all_articles' = Register(all_articles, Ref("Article", Len(author) + 1))
         /\ result' = Ref("Article", Len(author) + 1)
         /\ UNCHANGED <<authorState, magazineState>>

\* Faulty variant of add_article: after its own two tests it registers the article
\* itself, without the tests of Article.__init__.
add_article_Direct(self, m, t) ==
    /\ self \in Authors
    /\ IF ~isinstance(m, "Magazine")
       THEN Raise("Magazine must be an instance of the Magazine class.")
       ELSE IF ~isinstance(t, "str") THEN Raise("Title must be a string.")
       ELSE /\ author' = Append(author, self)
            /\ magazine' = Append(magazine, m)
            /\ title' = Append(title, t)
            /\ all_articles' = Register(all_articles, Ref("Article", Len(author) + 1))
            /\ result' = Ref("Article", Len(author) + 1)
            /\ UNCHANGED <<authorState, magazineState>>

\* Author.add_article(self, magazine, title)
add_article(self, m, t) ==
    /\ self \in Authors
    /\ IF ~isinstance(m, "Magazine")
       THEN Raise("Magazine must be an instance of the Magazine class.")
       ELSE IF ~isinstance(t, "str") THEN Raise("Title must be a string.")
       ELSE ArticleInit(self, m, t)

\* article.author = value: author is a plain instance attribute, so the
\* assignment stores any value.
SetAuthor(self, value) ==
    /\ self \in Articles
    /\ author' = [author EXCEPT ![self.val] = value]
    /\ result' = None
    /\ UNCHANGED <<magazine, title, all_articles, authorState, magazineState>>

\* article.magazine = value
SetMagazine(self, value) ==
    /\ self \in Articles
    /\ magazine' = [magazine EXCEPT ![self.val] = value]
    /\ result' = None
    /\ UNCHANGED <<author, title, all_articles, authorState, magazineState>>

\* article.title = value
SetTitle(self, value) ==
    /\ self \in Articles
    /\ title' = [title EXCEPT ![self.val] = value]
    /\ result' = None
    /\ UNCHANGED <<author, magazine, all_articles, authorState, magazineState>>

\* ------------------------------------------------------------ queries
\* Faulty variant of Author_articles: the registry is not filtered by author.
Author_articles_All(self) == List(all_articles)

\* Author.articles(self)
Author_articles(self) ==
    List(SelectSeq(all_articles, LAMBDA article : author[article.val] = self))

\* Author.magazines(self)
Author_magazines(self) ==
    list({magazine[article.val] : article \in Range(Author_articles(self).val)})

\* Author.topic_areas(self); magazine.category exists on a Magazine only.
topic_areas(self) ==
    LET magazines == Author_magazines(self).val IN
    IF magazines = <<>> THEN None
    ELSE IF \E m \in Range(magazines) : ~isinstance(m, "Magazine")
         THEN AttributeError
         ELSE list({_category[m.val] : m \in Range(magazines)})

\* Magazine.articles(self)
Magazine_articles(self) ==
    List(SelectSeq(all_articles, LAMBDA article : magazine[article.val] = self))

\* Faulty variant of Magazine_contributors: a list comprehension, not a set.
Magazine_contributors_List(self) ==
    List([i \in DOMAIN Magazine_articles(self).val |->
            author[Magazine_articles(self).val[i].val]])

\* Magazine.contributors(self)
Magazine_contributors(self) ==
    list({author[article.val] : article \in Range(Magazine_articles(self).val)})

\* Magazine.article_titles(self)
article_titles(self) ==
    LET titles == [i \in DOMAIN Magazine_articles(self).val |->
                     title[Magazine_articles(self).val[i].val]] IN
    IF titles = <<>> THEN None ELSE List(titles)

\* value.articles(): Author and Magazine both define a method of this name,
\* no other value of the model does.
articles(value) ==
    IF isinstance(value, "Author") THEN Author_articles(value)
    ELSE IF isinstance(value, "Magazine") THEN Magazine_articles(value)
    ELSE AttributeError

\* sum(1 for article in author.articles() if article.magazine == self)
CountFor(a, self) ==
    Len(SelectSeq(articles(a).val, LAMBDA article : magazine[article.val] = self))

\* Magazine.contributing_authors(self)
contributing_authors(self) ==
    LET authors == Magazine_contributors(self).val IN
    IF authors = <<>> THEN None
    ELSE IF \E a \in Range(authors) : articles(a) = AttributeError
         THEN AttributeError
         ELSE LET frequent_authors ==
                      SelectSeq(authors, LAMBDA a : CountFor(a, self) > Threshold)
              IN IF frequent_authors = <<>> THEN None ELSE List(frequent_authors)

\* Faulty variant of MaxScan: a later key with an equal count replaces the best.
RECURSIVE MaxScan_Last(_, _, _, _)
MaxScan_Last(keys, counts, best, i) ==
    IF i > Len(keys) THEN keys[best]
    ELSE MaxScan_Last(keys, counts, IF counts[i] >= counts[best] THEN i ELSE best, i + 1)

\* max(keys, key=counts.get): the scan keeps the first key and replaces it
\* only by a key whose count is strictly greater.
RECURSIVE MaxScan(_, _, _, _)
MaxScan(keys, counts, best, i) ==
    IF i > Len(keys) THEN keys[best]
    ELSE MaxScan(keys, counts, IF counts[i] > counts[best] THEN i ELSE best, i + 1)

\* Magazine.top_publisher(cls)
top_publisher ==
    IF all_articles = <<>> THEN None
    ELSE LET magazine_article_counts ==
                 [i \in DOMAIN all_magazines |->
                     Len(Magazine_articles(all_magazines[i]).val)]
         IN IF ~(\E i \in DOMAIN all_magazines : magazine_article_counts[i] # 0)
            THEN None
            ELSE MaxScan(all_magazines, magazine_article_counts, 1, 2)

\* ------------------------------------------------------------- inputs
Alice == Str(<<"A", "l", "i", "c", "e">>)
Vogue == Str(<<"V", "o", "g", "u", "e">>)
Technology == Str(<<"T", "e", "c", "h", "n", "o", "l", "o", "g", "y">>)
Health == Str(<<"H", "e", "a", "l", "t", "h">>)
Empty == Str(<<>>)
Hello == Str(<<"H", "e", "l", "l", "o">>)

\* Arguments of the validation specification: both ends of every accepted
\* range, the lengths just outside, and a value that is not a str.
EdgeAuthorNames == {Number(500), Empty, Alice}
EdgeNames ==
    {Number(500)} \cup
    {Str(Chars(n, "n")) : n \in {MinName - 1, MinName, MaxName, MaxName + 1}}
EdgeCategories == {Number(500), Empty, Technology}
EdgeTitles ==
    {Number(500)} \cup
    {Str(Chars(n, "t")) : n \in {MinTitle - 1, MinTitle, MaxTitle, MaxTitle + 1}}

\* ------------------------------------------------------ specifications
\* Every operation, with arguments the validated operations accept; the
\* plain attributes of an Article are written with values of their class
\* and with values of another type (for the author a str and a Magazine,
\* which has an articles() method too).
Next ==
    \/ Objects < MaxObjects /\ AuthorInit(Alice)
    \/ Objects < MaxObjects /\
         \E c \in {Technology, Health} : MagazineInit(Vogue, c)
    \/ \E self \in Magazines : SetName(self, Vogue)
    \/ \E self \in Magazines, value \in {Technology, Health} :
            SetCategory(self, value)
    \/ Objects < MaxObjects /\
         \E a \in Authors, m \in Magazines : ArticleInit(a, m, Hello)
    \/ Objects < MaxObjects /\
         \E self \in Authors, m \in Magazines : add_article(self, m, Hello)
    \/ \E self \in Articles, value \in Authors \cup Magazines \cup {Alice} :
            SetAuthor(self, value)
    \/ \E self \in Articles, value \in Magazines \cup {Vogue} :
            SetMagazine(self, value)
    \/ \E self \in Articles, value \in {Hello, Number(500)} : SetTitle(self, value)

Spec == Init /\ [][Next]_vars

\* The constructors, add_article and the property setters, on the edge
\* arguments and on arguments of the wrong class.
NextValidation ==
    \/ Objects < MaxObjects /\ \E value \in EdgeAuthorNames : AuthorInit(value)
    \/ Objects < MaxObjects /\
         \E n \in EdgeNames, c \in EdgeCategories : MagazineInit(n, c)
    \/ \E self \in Magazines, value \in EdgeNames : SetName(self, value)
    \/ \E self \in Magazines, value \in EdgeCategories : SetCategory(self, value)
    \/ Objects < MaxObjects /\
         \E a \in Authors \cup Magazines, m \in Magazines \cup Authors,
            t \in EdgeTitles : ArticleInit(a, m, t)
    \/ Objects < MaxObjects /\
         \E self \in Authors, m \in Magazines \cup Authors, t \in EdgeTitles :
            add_article(self, m, t)

SpecValidation == Init /\ [][NextValidation]_vars

\* ============================================================ claims
Unchanged == UNCHANGED <<authorState, magazineState, articleState>>

Raised(value) == value.type = "ValueError"

\* ---------------------------------------------------------------- C1
\* A step either leaves the registry as it is and returns no article, or
\* appends the one new article it returns, which was not in the registry,
\* at the end; afterwards the registry lists the articles by creation index.
C1_Step ==
    /\ \/ /\ all_articles' = all_articles
          /\ result'.type # "Article"
       \/ /\ result'.type = "Article"
          /\ result' \notin Range(all_articles)
          /\ all_articles' = all_articles \o <<result'>>
    /\ all_articles' = [i \in 1..Len(author') |-> Ref("Article", i)]

\* C1: after any sequence of valid and invalid Article constructions the
\* registry is exactly the successfully constructed articles in call order:
\* each successful construction appends its article once, at the end, and no
\* earlier entry is removed, duplicated or reordered (every step is a C1_Step).
C1_RegistryInCallOrder == [][C1_Step]_vars

\* Two constructions succeeded and a later one was rejected for its title.
C1_Witness ==
    /\ Len(all_articles) >= 2
    /\ result = ValueError("Title must be a string between 5 and 50 characters.")

\* ---------------------------------------------------------------- C2
\* The arguments the claim accepts, stated on the values themselves.
C2_Accepted(a, m, t) ==
    /\ a.type = "Author"
    /\ m.type = "Magazine"
    /\ t.type = "str"
    /\ Len(t.val) >= 5
    /\ Len(t.val) <= 50

\* C2: Article(a, m, t) raises a validation error exactly when a is not an
\* Author, m is not a Magazine or t is not a str of length 5 to 50; a
\* rejected construction leaves the registry and every article, author and
\* magazine unchanged, an accepted one registers the new article.
C2_ArticleValidation ==
    [][\A a \in Authors \cup Magazines, m \in Magazines \cup Authors,
          t \in EdgeTitles :
          ArticleInit(a, m, t) =>
             /\ Raised(result') <=> ~C2_Accepted(a, m, t)
             /\ ~C2_Accepted(a, m, t) => Unchanged
             /\ C2_Accepted(a, m, t) =>
                   /\ all_articles' = all_articles \o <<result'>>
                   /\ author'[result'.val] = a
                   /\ magazine'[result'.val] = m
                   /\ title'[result'.val] = t
                   /\ \A i \in DOMAIN author :
                         /\ author'[i] = author[i]
                         /\ magazine'[i] = magazine[i]
                         /\ title'[i] = title[i]]_vars

\* Titles of length 5 and of length 50 were accepted, and a construction
\* was then rejected for its title with both articles in the registry.
C2_Witness ==
    /\ result = ValueError("Title must be a string between 5 and 50 characters.")
    /\ \E i, j \in DOMAIN title : Len(title[i].val) = 5 /\ Len(title[j].val) = 50

\* ---------------------------------------------------------------- C3
C3_NameAccepted(value) ==
    value.type = "str" /\ Len(value.val) >= 2 /\ Len(value.val) <= 16

C3_CategoryAccepted(value) ==
    value.type = "str" /\ Len(value.val) >= 1

C3_AllValid ==
    /\ DOMAIN _category = DOMAIN _name
    /\ \A i \in DOMAIN _name :
          C3_NameAccepted(_name[i]) /\ C3_CategoryAccepted(_category[i])

\* C3: every write of a Magazine's name or category is validated, at
\* construction and on every later assignment: a rejected value raises a
\* validation error and leaves every magazine's name and category as they
\* were, an accepted value is stored; so every magazine always has a name of
\* length 2 to 16 and a non-empty category.
C3_MagazineWritesValidated ==
    [][
        /\ \A self \in Magazines, value \in EdgeNames :
             SetName(self, value) =>
                IF C3_NameAccepted(value)
                THEN /\ _name' = [_name EXCEPT ![self.val] = value]
                     /\ _category' = _category
                     /\ ~Raised(result')
                ELSE Raised(result') /\ Unchanged
        /\ \A self \in Magazines, value \in EdgeCategories :
             SetCategory(self, value) =>
                IF C3_CategoryAccepted(value)
                THEN /\ _category' = [_category EXCEPT ![self.val] = value]
                     /\ _name' = _name
                     /\ ~Raised(result')
                ELSE Raised(result') /\ Unchanged
        /\ \A n \in EdgeNames, c \in EdgeCategories :
             MagazineInit(n, c) =>
                IF C3_NameAccepted(n) /\ C3_CategoryAccepted(c)
                THEN /\ _name' = _name \o <<n>>
                     /\ _category' = _category \o <<c>>
                     /\ all_magazines' = all_magazines \o <<result'>>
                ELSE Raised(result') /\ Unchanged
        /\ C3_AllValid']_vars

\* No constructor can run (the run has created its MaxObjects objects), so
\* the call that was rejected for its name is an assignment to the name of
\* an existing magazine, whose name of length 16 is kept.
C3_Witness ==
    /\ Objects = MaxObjects
    /\ result = ValueError("Name must be a string between 2 and 16 characters.")
    /\ \E i \in DOMAIN _name : Len(_name[i].val) = 16

\* ---------------------------------------------------------------- C4
\* The number of registry entries whose magazine is m.
C4_Count(m) ==
    Cardinality({i \in DOMAIN all_articles : magazine[all_articles[i].val] = m})

C4_MaxCount ==
    CHOOSE n \in 0..Len(all_articles) :
        /\ \A i \in DOMAIN all_magazines : C4_Count(all_magazines[i]) <= n
        /\ n = 0 \/ \E i \in DOMAIN all_magazines : C4_Count(all_magazines[i]) = n

\* C4: top_publisher() is None if the registry is empty or no magazine has
\* an article; otherwise it is the magazine, first in creation order, among
\* those whose article count is the maximum over all magazines.
C4_TopPublisher ==
    IF all_articles = <<>> \/ C4_MaxCount = 0
    THEN top_publisher = None
    ELSE \E i \in DOMAIN all_magazines :
            /\ top_publisher = all_magazines[i]
            /\ C4_Count(all_magazines[i]) = C4_MaxCount
            /\ \A j \in 1..(i - 1) : C4_Count(all_magazines[j]) < C4_MaxCount

\* Two magazines tie for the maximum and the earlier one is returned.
C4_Witness ==
    /\ Len(all_magazines) >= 2
    /\ C4_Count(all_magazines[1]) = C4_MaxCount
    /\ C4_Count(all_magazines[2]) = C4_MaxCount
    /\ C4_MaxCount >= 1
    /\ top_publisher = all_magazines[1]

\* ---------------------------------------------------------------- C5
C5_Pos(article) == CHOOSE k \in DOMAIN all_articles : all_articles[k] = article

\* a.articles() holds exactly the registry entries whose author is a, each
\* once, in registry order.
C5_Exact ==
    \A a \in Authors :
        LET s == Author_articles(a).val IN
        /\ \A i \in DOMAIN s :
              s[i] \in Range(all_articles) /\ author[s[i].val] = a
        /\ \A x \in Range(all_articles) : author[x.val] = a => x \in Range(s)
        /\ \A i, j \in DOMAIN s : i < j => C5_Pos(s[i]) < C5_Pos(s[j])

\* C5: for every author a, a.articles() is exactly the subsequence of the
\* registry whose author is the instance a, in registry order, and
\* constructing an article for a different author leaves it unchanged.
C5_AuthorArticles ==
    [][
        /\ C5_Exact'
        /\ \A a \in Authors :
              (/\ result'.type = "Article"
               /\ Len(all_articles') = Len(all_articles) + 1
               /\ author'[result'.val] # a)
              => Author_articles(a)' = Author_articles(a)
    ]_vars

\* Two authors each have one article in the registry; the second article
\* was just constructed for the second author and the first author's
\* articles are still the first entry alone.
C5_Witness ==
    /\ Len(all_articles) = 2
    /\ result = all_articles[2]
    /\ \E a, b \in Authors :
          /\ a # b
          /\ Author_articles(a).val = <<all_articles[1]>>
          /\ Author_articles(b).val = <<all_articles[2]>>

\* ---------------------------------------------------------------- C7
C7_TitleAccepted(t) == t.type = "str" /\ Len(t.val) >= 5 /\ Len(t.val) <= 50

\* C7: a.add_article(m, t) has the outcome and the effect of Article(a, m, t):
\* with a Magazine and a str title of length 5 to 50 it appends one new
\* article with author a, magazine m and title t at the end of the registry
\* and returns it; otherwise it raises a validation error, as Article(a, m, t)
\* would, and leaves the registry unchanged.
C7_AddArticleAsArticle ==
    [][\A self \in Authors, m \in Magazines \cup Authors, t \in EdgeTitles :
          add_article(self, m, t) =>
             IF m.type = "Magazine" /\ C7_TitleAccepted(t)
             THEN /\ ArticleInit(self, m, t)
                  /\ result'.type = "Article"
                  /\ all_articles' = all_articles \o <<result'>>
                  /\ author'[result'.val] = self
                  /\ magazine'[result'.val] = m
                  /\ title'[result'.val] = t
             ELSE /\ Raised(result')
                  /\ Unchanged
                  /\ ENABLED (ArticleInit(self, m, t) /\ Raised(result'))
                  /\ ~ENABLED (ArticleInit(self, m, t) /\ ~Raised(result'))]_vars

\* add_article rejected a title that is not a str (the message is its own)
\* with an article already in the registry.
C7_Witness ==
    /\ result = ValueError("Title must be a string.")
    /\ all_articles # <<>>

\* --------------------------------------------------------------- C10
C10_Related(a, m) ==
    \E article \in Range(all_articles) :
        author[article.val] = a /\ magazine[article.val] = m

C10_Once(seq) == \A i, j \in DOMAIN seq : seq[i] = seq[j] => i = j

C9_ArticlesValid ==
    \A article \in Range(all_articles) :
        /\ author[article.val].type = "Author"
        /\ magazine[article.val].type = "Magazine"
        /\ title[article.val].type = "str"
        /\ Len(title[article.val].val) >= 5
        /\ Len(title[article.val].val) <= 50

\* The part of C9 the constructor and the Magazine setters do keep: C9 holds
\* in every state reached without a write of an Article attribute.
C9_ValidWhenConstructed == C9_ArticlesValid

\* ---------------------------------------------------------------- C6
C6_CountFor(a, m) ==
    Cardinality({i \in DOMAIN all_articles :
                    /\ author[all_articles[i].val] = a
                    /\ magazine[all_articles[i].val] = m})

C6_Frequent(m) == {a \in Authors : C6_CountFor(a, m) > 2}

C6_Returns(m) ==
    LET r == contributing_authors(m) IN
    IF C6_Frequent(m) = {}
    THEN r = None
    ELSE r.type = "list" /\ Range(r.val) = C6_Frequent(m) /\ C10_Once(r.val)

\* C6: for every magazine m, m.contributing_authors() is None when no author
\* has more than 2 articles in m, and otherwise exactly the authors with more
\* than 2 articles whose magazine is m.
C6_ContributingAuthors == \A m \in Magazines : C6_Returns(m)

\* C6 for the magazines whose articles all have an Author as author.
C6_WhenAuthorsValid ==
    \A m \in Magazines :
        (\A x \in Range(all_articles) :
            magazine[x.val] = m => author[x.val].type = "Author")
        => C6_Returns(m)

\* An author with three articles in one magazine is returned by it.
C6_ThresholdReached ==
    \E m \in Magazines :
        /\ C6_Frequent(m) # {}
        /\ contributing_authors(m) = List(<<CHOOSE a \in Authors : a \in C6_Frequent(m)>>)

\* ---------------------------------------------------------------- C8
C8_Categories(a) ==
    {_category[m.val] : m \in {n \in Magazines : C10_Related(a, n)}}

C8_Returns(a) ==
    LET r == topic_areas(a) IN
    IF \A x \in Range(all_articles) : author[x.val] # a
    THEN r = None
    ELSE r.type = "list" /\ Range(r.val) = C8_Categories(a) /\ C10_Once(r.val)

\* C8: for every author a, a.topic_areas() is None iff a has no articles in
\* the registry; otherwise it is exactly the distinct current categories of
\* the magazines that have an article by a, each listed once.
C8_TopicAreas == \A a \in Authors : C8_Returns(a)

\* C8 for the authors whose articles all have a Magazine as magazine.
C8_WhenMagazinesValid ==
    \A a \in Authors :
        (\A x \in Range(all_articles) :
            author[x.val] = a => magazine[x.val].type = "Magazine")
        => C8_Returns(a)

\* An author wrote for two magazines that share a category, listed once.
C8_SharedCategory ==
    \E a \in Authors :
        /\ Len(Author_magazines(a).val) = 2
        /\ \A m \in Range(Author_magazines(a).val) : m.type = "Magazine"
        /\ Len(topic_areas(a).val) = 1

====
